---- MODULE Spec2Model ----
(***************************************************************************)
(* Model of the MMLU prompt-variant benchmark harness:                     *)
(*   src/src/benchmark_evaluator.py  BenchmarkEvaluator                    *)
(*   src/src/prompt_generator.py     PromptGenerator                       *)
(*   src/src/main.py                 main (experiment orchestration)       *)
(*   src/src/config.py               Config                                *)
(*   src/src/data_manager.py         DataManager                           *)
(*                                                                         *)
(* A Python str is a sequence of one-character strings, so strip, upper,   *)
(* split and replace are computed character by character.                  *)
(***************************************************************************)
EXTENDS Integers, Sequences, FiniteSets, TLC

\* ------------------------------------------------------------------ bounds
\* Longest invoker response enumerated for _evaluate_single.
MaxLen == 3
\* Longest generator response and largest num_variants enumerated for
\* generate_prompt_variants.
MaxGenLen == 4
MaxCount == 3
\* Number of times main() is started one after the other.
MaxRuns == 2
\* num_variants of generate_prompt_variants as process_test_file calls it.
\* The source's default is 10 (prompt_generator.py:24); the model scales it
\* down, every row of a prompts file has this many variants.
NumVariants == 3

\* ------------------------------------------------------------- characters
\* Characters an evaluation response is made of: whitespace, lower and upper
\* case answer letters, and letters that are no answer.
Chars == {" ", "a", "b", "C", "D", "x"}
\* Characters a generator response is made of.
GenChars == {"|", " ", "u", "v"}

Whitespace == {" "}

\* str.upper() on one character.
upper(c) ==
  CASE c = "a" -> "A"
    [] c = "b" -> "B"
    [] c = "c" -> "C"
    [] c = "d" -> "D"
    [] c = "u" -> "U"
    [] c = "v" -> "V"
    [] c = "x" -> "X"
    [] OTHER -> c

str_upper(s) == [i \in 1..Len(s) |-> upper(s[i])]

RECURSIVE lstrip(_)
lstrip(s) ==
  IF s # <<>> /\ Head(s) \in Whitespace THEN lstrip(Tail(s)) ELSE s

RECURSIVE rstrip(_)
rstrip(s) ==
  IF s # <<>> /\ s[Len(s)] \in Whitespace
    THEN rstrip(SubSeq(s, 1, Len(s) - 1))
    ELSE s

\* str.strip(): leading and trailing whitespace removed.
strip(s) == rstrip(lstrip(s))

\* str.split(sep): the pieces between the separators, always at least one.
RECURSIVE split(_, _)
split(s, sep) ==
  IF \A i \in 1..Len(s) : s[i] # sep
    THEN <<s>>
    ELSE LET k == CHOOSE i \in 1..Len(s) :
                     s[i] = sep /\ \A j \in 1..(i - 1) : s[j] # sep
         IN  <<SubSeq(s, 1, k - 1)>> \o split(SubSeq(s, k + 1, Len(s)), sep)

\* str.replace(old, ""): every occurrence of the character removed.
RECURSIVE remove_char(_, _)
remove_char(s, old) ==
  IF s = <<>> THEN <<>>
  ELSE IF Head(s) = old THEN remove_char(Tail(s), old)
  ELSE <<Head(s)>> \o remove_char(Tail(s), old)

\* All sequences over S of length at most n.
RECURSIVE StringsUpTo(_, _)
StringsUpTo(S, n) ==
  IF n = 0 THEN {<<>>}
  ELSE LET shorter == StringsUpTo(S, n - 1)
       IN  shorter \cup {Append(s, c) : s \in {t \in shorter : Len(t) = n - 1}, c \in S}

\* seq[:n] for n >= 0.
take(seq, n) == SubSeq(seq, 1, IF n < Len(seq) THEN n ELSE Len(seq))

\* [x] * n.
repeat(x, n) == [i \in 1..n |-> x]

\* ------------------------------------------------------- the model invoker
\* What self.llm.invoke / chain.invoke does: it returns a text or raises.
Returned(text) == [ok |-> TRUE, text |-> text]
Failure == [ok |-> FALSE, text |-> <<>>]

\* ------------------------------------------------- BenchmarkEvaluator
AnswerLetters == {<<"A">>, <<"B">>, <<"C">>, <<"D">>}

\* The result of a call: a returned value or a raised RuntimeError.
Return(v) == [raised |-> FALSE, value |-> v]
RaiseRuntimeError == [raised |-> TRUE, value |-> <<>>]

\* Mutants of _evaluate_single (used to test the checks of its claims).
evaluate_single_no_first_letter(outcome) ==
  IF ~outcome.ok THEN RaiseRuntimeError
  ELSE LET response == str_upper(strip(outcome.text))
       IN  IF response \notin AnswerLetters THEN Return(<<"A">>) ELSE Return(response)

evaluate_single_default_on_failure(outcome) ==
  IF ~outcome.ok THEN Return(<<"A">>)
  ELSE LET response == str_upper(strip(outcome.text))
       IN  IF response \notin AnswerLetters
             THEN Return(IF response # <<>> /\ <<response[1]>> \in AnswerLetters
                           THEN <<response[1]>> ELSE <<"A">>)
             ELSE Return(response)

\* _evaluate_single, given what the invoker does with the prompt.
_evaluate_single(outcome) ==
  IF ~outcome.ok THEN RaiseRuntimeError
  ELSE LET response == str_upper(strip(outcome.text))
       IN  IF response \notin AnswerLetters
             THEN Return(IF response # <<>> /\ <<response[1]>> \in AnswerLetters
                           THEN <<response[1]>> ELSE <<"A">>)
             ELSE Return(response)

\* ------------------------------------------------------ PromptGenerator
generate_prompt_variants_no_padding(question, num_variants, outcome) ==
  IF ~outcome.ok THEN Return(repeat(question, num_variants))
  ELSE LET pieces == split(outcome.text, "|")
       IN  Return(take([i \in 1..Len(pieces) |-> strip(pieces[i])], num_variants))

\* generate_prompt_variants (num_variants >= 0): the except branch returns
\* the question repeated, nothing is raised again.
generate_prompt_variants(question, num_variants, outcome) ==
  IF ~outcome.ok THEN Return(repeat(question, num_variants))
  ELSE LET pieces == split(outcome.text, "|")
           variants == take([i \in 1..Len(pieces) |-> strip(pieces[i])], num_variants)
       IN  Return(variants \o repeat(question, num_variants - Len(variants)))

\* ------------------------------------------------------------- variables
VARIABLES
  LLM_MODELS,        \* Config.LLM_MODELS: the configured model names, in order
  test_file,         \* data/test/<TEST_FILE>: rows of fields
  data_dir,          \* whether DataManager.data_dir exists
  prompts_files,     \* llm_name -> the model's prompts file (<<>> absent, <<rows>> present)
  results_dir,       \* llm_name -> mode -> the report file (<<>> absent, <<report>> present)
  summary_file,      \* results/experiment_summary.json (<<>> absent, <<summary>> present)
  pc,                \* where main() stands
  run,               \* how many times main() was started
  mi,                \* main: position of llm_model in LLM_MODELS
  results_summary,   \* main: results_summary["llm_models"], model name -> entry
  baseline_results,  \* main: baseline_results
  optimized_results, \* main: optimized_results
  test_data,         \* evaluator: test_data
  pos,               \* evaluator: position of the loop over the questions
  scores,            \* evaluator: scores of the question at pos
  total_questions,   \* evaluator: total_questions
  correct_answers,   \* evaluator: correct_answers
  results,           \* evaluator: results
  arg,               \* arguments of a function called on its own
  ret,               \* what that call returned
  calls,             \* history: <<model position, mode>> -> evaluation invoker calls of this run
  hit,               \* history: the <<model position, mode>> pairs loaded from a report file in this run
  saved,             \* history: the files written in this run
  failed,            \* history: <<>>, or <<model position, mode, call>>: the call that raised in this run
  log                \* history: the invoker calls of the evaluation under way that returned

vars == <<LLM_MODELS, test_file, data_dir, prompts_files, results_dir, summary_file,
          pc, run, mi, results_summary, baseline_results, optimized_results,
          test_data, pos, scores, total_questions, correct_answers, results,
          arg, ret, calls, hit, saved, failed, log>>

config_vars == <<LLM_MODELS, test_file>>
storage_vars == <<prompts_files, results_dir, summary_file>>
evaluator_vars == <<test_data, pos, scores, total_questions, correct_answers, results, log>>
harness_vars == <<arg, ret>>

Modes == {"baseline", "optimized"}

\* ---------------------------------------------------------------- values
\* A float the code computes from two integers, kept exact: num / den in
\* lowest terms (den > 0).
RECURSIVE Gcd(_, _)
Gcd(a, b) == IF b = 0 THEN a ELSE Gcd(b, a % b)

Abs(n) == IF n < 0 THEN -n ELSE n

Frac(n, d) ==
  LET g == Gcd(Abs(n), d) IN [num |-> n \div g, den |-> d \div g]

FracSub(x, y) == Frac(x.num * y.den - y.num * x.den, x.den * y.den)

\* An absent file, and a file holding a document.  json.dump writes str,
\* int, float, bool, list and dict-with-str-keys values only, which
\* json.load reads back as equal values: a file holds the document itself.
NoFile == <<>>
FileOf(document) == <<document>>
exists(file) == file # NoFile
json_load(file) == file[1]

\* main.py:27: llm_name = llm_model.replace(":", "")
llm_name(llm_model) == remove_char(llm_model, ":")

LlmNames(models) == {llm_name(models[i]) : i \in DOMAIN models}

\* _format_mmlu_prompt: the text is fixed but for the question and the
\* four choices.
_format_mmlu_prompt(question, choices) ==
  [question |-> question, choices |-> choices]

\* [f(x) for x in seq if keep(x)]
RECURSIVE SelectRows(_, _)
SelectRows(rows, n) ==
  IF rows = <<>> THEN <<>>
  ELSE IF Len(Head(rows)) >= n THEN <<Head(rows)>> \o SelectRows(Tail(rows), n)
  ELSE SelectRows(Tail(rows), n)

\* _load_test_data: the rows of at least 6 fields.
_load_test_data(file) ==
  LET rows == SelectRows(file, 6)
  IN  [i \in 1..Len(rows) |->
         [question |-> rows[i][1],
          choices  |-> SubSeq(rows[i], 2, 5),
          answer   |-> str_upper(strip(rows[i][6]))]]

\* process_test_file: one row of variants for each row of at least 5
\* fields, outcomes[i] being what the model call for the i-th of them does.
\* (csv.writer and csv.reader keep the rows and their fields.)
\* (mutant: the generator skips more rows than _load_test_data does)
GeneratedRows_complete_rows_only(file) == SelectRows(file, 7)

GeneratedRows(file) == SelectRows(file, 5)

process_test_file(file, outcomes) ==
  LET rows == GeneratedRows(file)
  IN  [i \in 1..Len(rows) |->
         generate_prompt_variants(rows[i][1], NumVariants, outcomes[i]).value]

\* accuracy = (correct_answers / total_questions * 100) if total_questions > 0 else 0
accuracy_unscaled(correct, total) ==
  IF total > 0 THEN Frac(correct, total) ELSE Frac(0, 1)

accuracy(correct, total) ==
  IF total > 0 THEN Frac(correct * 100, total) ELSE Frac(0, 1)

\* The dict both evaluations return.
report(total, correct, res) ==
  [total |-> total, correct |-> correct,
   accuracy |-> accuracy(correct, total), results |-> res]

\* max(scores) and scores.index(x) (0-based) of a non-empty list.
max(seq) == CHOOSE x \in {seq[i] : i \in DOMAIN seq} :
              \A i \in DOMAIN seq : seq[i] <= x

index_last(seq, x) ==
  (CHOOSE i \in DOMAIN seq : seq[i] = x /\ \A j \in DOMAIN seq : seq[j] = x => j <= i) - 1

index(seq, x) ==
  (CHOOSE i \in DOMAIN seq : seq[i] = x /\ \A j \in 1..(i - 1) : seq[j] # x) - 1

\* 1.0 if is_correct else 0.0
score(is_correct) == IF is_correct THEN 1 ELSE 0

\* ------------------------------------------------------------------ inputs
\* Config.LLM_MODELS as config.py:12 sets it when LLM_MODELS is not in the
\* environment, "qwen2.5:latest,llama3.2:latest".split(","), names shortened.
DefaultModels == << <<"q", ":", "l">>, <<"l", ":", "l">> >>
SingleModel == << <<"q", ":", "l">> >>

Q1 == <<"q">>
Q2 == <<"r">>
Q3 == <<"s">>
Row6(question, answer) == <<question, <<"w">>, <<"x">>, <<"y">>, <<"z">>, answer>>
Row5(question) == <<question, <<"w">>, <<"x">>, <<"y">>, <<"z">>>>
Row4(question) == <<question, <<"w">>, <<"x">>, <<"y">>>>

\* The test file of the experiment with the default models: one question
\* after a row the loaders skip.
SmallTestFiles ==
  { <<Row4(Q2), Row6(Q1, <<" ", "B">>)>> }

\* Test files of the experiment with one model: no question (an empty file,
\* a file of one row the loaders skip), one question, one question after a
\* row of 5 fields (a question without its answer), and two questions
\* around a row the loaders skip.
TestFiles ==
  { <<>>,
    <<Row4(Q1)>>,
    <<Row6(Q1, <<"b">>)>>,
    <<Row5(Q2), Row6(Q1, <<"b">>)>>,
    <<Row6(Q1, <<"b">>), Row4(Q3), Row6(Q2, <<"a", " ">>)>> }

\* What the invoker does with an evaluation prompt.
EvalOutcomes == {Returned(<<" ", "b">>), Returned(<<"x">>), Failure}

\* What the model does with a generation prompt.
GenOutcomes == {Returned(<<"u", "|", " ", "v">>), Failure}

\* ------------------------------------------------------------------- main
llm_model == LLM_MODELS[mi]
name == llm_name(llm_model)
prompts_rows == prompts_files[name][1]

Pairs == (1..Len(LLM_MODELS)) \X Modes

NoReport == <<>>

\* main.py:50 and main.py:63: if baseline_output.exists() / if optimized_output.exists()
cached_never(file) == FALSE

cached(file) == exists(file)

\* save_results: the file json.dump(results, f) leaves.
save_results_nothing(returned) == NoFile

save_results(returned) == FileOf(returned)

\* The call that is logged: where it was made, its prompt, the label returned.
Call(at, prompt, label) == [pos |-> at, prompt |-> prompt, label |-> label]
NoLocals ==
  /\ test_data' = <<>>
  /\ pos' = 0
  /\ scores' = <<>>
  /\ total_questions' = 0
  /\ correct_answers' = 0
  /\ results' = <<>>
  /\ log' = <<>>

\* main.py:10-20: validate, download the data, start with an empty summary.
\* download_and_extract_mmlu returns True when the directory exists or the
\* download worked, False when it failed; main returns on False.
StartRun ==
  /\ pc \in {"idle", "done", "aborted", "exited"}
  /\ run < MaxRuns
  /\ run' = run + 1
  /\ calls' = [p \in Pairs |-> 0]
  /\ hit' = {}
  /\ saved' = {}
  /\ failed' = <<>>
  /\ \/ /\ data_dir
        /\ UNCHANGED data_dir
        /\ pc' = "prepare"
     \/ /\ ~data_dir
        /\ data_dir' = TRUE
        /\ pc' = "prepare"
     \/ /\ ~data_dir
        /\ UNCHANGED data_dir
        /\ pc' = "exited"
  /\ results_summary' = [m \in {} |-> NoReport]
  /\ mi' = 1
  /\ baseline_results' = NoReport
  /\ optimized_results' = NoReport
  /\ NoLocals
  /\ UNCHANGED <<config_vars, storage_vars, harness_vars>>

\* main.py:30-41: the prompts file is generated unless it exists.
Prepare ==
  /\ pc = "prepare"
  /\ IF exists(prompts_files[name])
       THEN UNCHANGED <<prompts_files, saved>>
       ELSE \E outcomes \in [1..Len(GeneratedRows(test_file)) -> GenOutcomes] :
              /\ prompts_files' =
                   [prompts_files EXCEPT ![name] = FileOf(process_test_file(test_file, outcomes))]
              /\ saved' = saved \cup {<<mi, "prompts">>}
  /\ pc' = "baseline"
  /\ UNCHANGED <<config_vars, data_dir, results_dir, summary_file, run, mi, results_summary,
                 baseline_results, optimized_results, evaluator_vars, harness_vars,
                 calls, hit, failed>>

\* main.py:50-54 (report file present) and main.py:55-56 with
\* benchmark_evaluator.py:60-65 (run_baseline_evaluation starts).
BaselineCheck ==
  /\ pc = "baseline"
  /\ hit' = IF exists(results_dir[name].baseline) THEN hit \cup {<<mi, "baseline">>} ELSE hit
  /\ \/ /\ cached(results_dir[name].baseline)
        /\ baseline_results' = <<json_load(results_dir[name].baseline)>>
        /\ pc' = "optimized"
        /\ UNCHANGED evaluator_vars
     \/ /\ ~cached(results_dir[name].baseline)
        /\ test_data' = _load_test_data(test_file)
        /\ pos' = 1
        /\ total_questions' = 0
        /\ correct_answers' = 0
        /\ results' = <<>>
        /\ pc' = "baseline_loop"
        /\ UNCHANGED <<baseline_results, scores, log>>
  /\ UNCHANGED <<config_vars, data_dir, storage_vars, run, mi, results_summary,
                 optimized_results, harness_vars, calls, saved, failed>>

\* The error is swallowed and the loop goes on with the next question.
Abort_goes_on(mode) ==
  /\ pc' = pc
  /\ mi' = mi
  /\ failed' = <<mi, mode, calls[<<mi, mode>>] + 1>>
  /\ pos' = pos + 1
  /\ UNCHANGED <<test_data, scores, total_questions, correct_answers, results, log,
                 baseline_results, optimized_results>>

\* The handler goes on with the next model (continue for return).
Abort_next_model(mode) ==
  /\ IF mi < Len(LLM_MODELS)
       THEN mi' = mi + 1 /\ pc' = "prepare"
       ELSE mi' = mi /\ pc' = "final"
  /\ failed' = <<mi, mode, calls[<<mi, mode>>] + 1>>
  /\ NoLocals
  /\ UNCHANGED <<baseline_results, optimized_results>>

\* benchmark_evaluator.py:38-40 raises RuntimeError out of the evaluation
\* (nothing is returned, save_results is not reached) and main.py:88-97
\* handles it: except RuntimeError: ... return
Abort(mode) ==
  /\ pc' = "aborted"
  /\ mi' = mi
  /\ failed' = <<mi, mode, calls[<<mi, mode>>] + 1>>
  /\ NoLocals
  /\ UNCHANGED <<baseline_results, optimized_results>>

\* benchmark_evaluator.py:67-88: one question of run_baseline_evaluation.
BaselineQuestion ==
  /\ pc = "baseline_loop"
  /\ pos <= Len(test_data)
  /\ \E outcome \in EvalOutcomes :
       LET example == test_data[pos]
           prompt == _format_mmlu_prompt(example.question, example.choices)
           predicted == _evaluate_single(outcome)
           is_correct == predicted.value = example.answer
       IN  /\ calls' = [calls EXCEPT ![<<mi, "baseline">>] = @ + 1]
           /\ IF predicted.raised
                THEN Abort("baseline")
                ELSE /\ total_questions' = total_questions + 1
                     /\ correct_answers' = correct_answers + score(is_correct)
                     /\ results' = Append(results,
                          [question |-> example.question, predicted |-> predicted.value,
                           correct |-> example.answer, is_correct |-> is_correct])
                     /\ pos' = pos + 1
                     /\ log' = Append(log, Call(pos, prompt, predicted.value))
                     /\ UNCHANGED <<pc, mi, failed, test_data, scores, baseline_results,
                                    optimized_results>>
  /\ UNCHANGED <<config_vars, data_dir, storage_vars, run, results_summary,
                 harness_vars, hit, saved>>

\* benchmark_evaluator.py:90-97 and main.py:56-57: the report is returned
\* and save_results writes it.
BaselineReturn ==
  /\ pc = "baseline_loop"
  /\ pos > Len(test_data)
  /\ LET returned == report(total_questions, correct_answers, results)
     IN  /\ baseline_results' = <<returned>>
         /\ results_dir' = [results_dir EXCEPT ![name].baseline = save_results(returned)]
  /\ saved' = saved \cup {<<mi, "baseline">>}
  /\ pc' = "optimized"
  /\ NoLocals
  /\ UNCHANGED <<config_vars, data_dir, prompts_files, summary_file, run, mi,
                 results_summary, optimized_results, harness_vars, calls, hit, failed>>

\* zip(test_data, prompts_reader) ends with the shorter of the two.
zip_len_of(data, rows) == IF Len(data) < Len(rows) THEN Len(data) ELSE Len(rows)

zip_len == zip_len_of(test_data, prompts_rows)

\* benchmark_evaluator.py:112-114: the first pair at or after p whose
\* prompts row is not empty (if not prompts_row: continue).
RECURSIVE next_pair(_, _, _)
next_pair(p, data, rows) ==
  IF p <= zip_len_of(data, rows) /\ rows[p] = <<>>
    THEN next_pair(p + 1, data, rows)
    ELSE p

\* main.py:63-67 (report file present) and main.py:68-69 with
\* benchmark_evaluator.py:103-112 (run_optimized_evaluation starts).
OptimizedCheck ==
  /\ pc = "optimized"
  /\ hit' = IF exists(results_dir[name].optimized) THEN hit \cup {<<mi, "optimized">>} ELSE hit
  /\ \/ /\ cached(results_dir[name].optimized)
        /\ optimized_results' = <<json_load(results_dir[name].optimized)>>
        /\ pc' = "summarize"
        /\ UNCHANGED evaluator_vars
     \/ /\ ~cached(results_dir[name].optimized)
        /\ test_data' = _load_test_data(test_file)
        /\ pos' = next_pair(1, _load_test_data(test_file), prompts_rows)
        /\ scores' = <<>>
        /\ total_questions' = 0
        /\ correct_answers' = 0
        /\ results' = <<>>
        /\ pc' = "optimized_loop"
        /\ UNCHANGED <<optimized_results, log>>
  /\ UNCHANGED <<config_vars, data_dir, storage_vars, run, mi, results_summary,
                 baseline_results, harness_vars, calls, saved, failed>>

\* benchmark_evaluator.py:121-125: one variant of the question is scored.
OptimizedVariant ==
  /\ pc = "optimized_loop"
  /\ pos <= zip_len
  /\ Len(scores) < Len(prompts_rows[pos])
  /\ \E outcome \in EvalOutcomes :
       LET test_item == test_data[pos]
           variant == prompts_rows[pos][Len(scores) + 1]
           prompt == _format_mmlu_prompt(variant, test_item.choices)
           predicted == _evaluate_single(outcome)
           is_correct == predicted.value = test_item.answer
       IN  /\ calls' = [calls EXCEPT ![<<mi, "optimized">>] = @ + 1]
           /\ IF predicted.raised
                THEN Abort("optimized")
                ELSE /\ scores' = Append(scores, score(is_correct))
                     /\ log' = Append(log, Call(pos, prompt, predicted.value))
                     /\ UNCHANGED <<pc, mi, failed, test_data, pos, total_questions,
                                    correct_answers, results, baseline_results,
                                    optimized_results>>
  /\ UNCHANGED <<config_vars, data_dir, storage_vars, run, results_summary,
                 harness_vars, hit, saved>>

\* benchmark_evaluator.py:128-129: best_idx = scores.index(max(scores))
best_idx_last(s) == index_last(s, max(s))

\* (mutant: the index of the first variant's score, maximum or not)
best_idx_first_score(s) == index(s, s[1])

best_idx_of(s) == index(s, max(s))

\* logged labels of the calls made at position k.
RECURSIVE LabelsAt(_, _)
LabelsAt(calllog, k) ==
  IF calllog = <<>> THEN <<>>
  ELSE IF Head(calllog).pos = k THEN <<Head(calllog).label>> \o LabelsAt(Tail(calllog), k)
  ELSE LabelsAt(Tail(calllog), k)

\* The judgment of the scoring loop is reused: no second call.
OptimizedBest_no_second_call ==
  /\ pc = "optimized_loop"
  /\ pos <= zip_len
  /\ Len(scores) = Len(prompts_rows[pos])
  /\ LET test_item == test_data[pos]
         best_idx == best_idx_of(scores)
         best_question == prompts_rows[pos][best_idx + 1]
         predicted == LabelsAt(log, pos)[best_idx + 1]
         is_correct == predicted = test_item.answer
     IN  /\ total_questions' = total_questions + 1
         /\ correct_answers' = correct_answers + score(is_correct)
         /\ results' = Append(results,
              [original_question |-> test_item.question,
               best_prompt |-> best_question,
               best_idx |-> best_idx,
               scores |-> scores,
               predicted |-> predicted,
               correct |-> test_item.answer,
               is_correct |-> is_correct])
         /\ pos' = next_pair(pos + 1, test_data, prompts_rows)
         /\ scores' = <<>>
  /\ UNCHANGED <<config_vars, data_dir, storage_vars, run, results_summary,
                 harness_vars, hit, saved, pc, mi, failed, test_data, baseline_results,
                 optimized_results, calls, log>>

\* benchmark_evaluator.py:127-151: the best variant is chosen and evaluated
\* again, and the question's result is recorded.
OptimizedBest ==
  /\ pc = "optimized_loop"
  /\ pos <= zip_len
  /\ Len(scores) = Len(prompts_rows[pos])
  /\ \E outcome \in EvalOutcomes :
       LET test_item == test_data[pos]
           best_idx == best_idx_of(scores)
           best_question == prompts_rows[pos][best_idx + 1]
           best_prompt == _format_mmlu_prompt(best_question, test_item.choices)
           predicted == _evaluate_single(outcome)
           is_correct == predicted.value = test_item.answer
       IN  /\ calls' = [calls EXCEPT ![<<mi, "optimized">>] = @ + 1]
           /\ IF predicted.raised
                THEN Abort("optimized")
                ELSE /\ total_questions' = total_questions + 1
                     /\ correct_answers' = correct_answers + score(is_correct)
                     /\ results' = Append(results,
                          [original_question |-> test_item.question,
                           best_prompt |-> best_question,
                           best_idx |-> best_idx,
                           scores |-> scores,
                           predicted |-> predicted.value,
                           correct |-> test_item.answer,
                           is_correct |-> is_correct])
                     /\ pos' = next_pair(pos + 1, test_data, prompts_rows)
                     /\ scores' = <<>>
                     /\ log' = Append(log, Call(pos, best_prompt, predicted.value))
                     /\ UNCHANGED <<pc, mi, failed, test_data, baseline_results,
                                    optimized_results>>
  /\ UNCHANGED <<config_vars, data_dir, storage_vars, run, results_summary,
                 harness_vars, hit, saved>>

\* benchmark_evaluator.py:153-160 and main.py:69-70: the report is returned
\* and save_results writes it.
OptimizedReturn ==
  /\ pc = "optimized_loop"
  /\ pos > zip_len
  /\ LET returned == report(total_questions, correct_answers, results)
     IN  /\ optimized_results' = <<returned>>
         /\ results_dir' = [results_dir EXCEPT ![name].optimized = save_results(returned)]
  /\ saved' = saved \cup {<<mi, "optimized">>}
  /\ pc' = "summarize"
  /\ NoLocals
  /\ UNCHANGED <<config_vars, data_dir, prompts_files, summary_file, run, mi,
                 results_summary, baseline_results, harness_vars, calls, hit, failed>>

\* main.py:72-81: the model's entry of the summary.
summary_entry(baseline, optimized) ==
  [baseline_accuracy  |-> baseline.accuracy,
   optimized_accuracy |-> optimized.accuracy,
   improvement        |-> FracSub(optimized.accuracy, baseline.accuracy),
   baseline_correct   |-> baseline.correct,
   optimized_correct  |-> optimized.correct,
   total_questions    |-> baseline.total]

\* main.py:72-86, then the next llm_model of the loop (main.py:22) or the
\* end of the loop.
Summarize ==
  /\ pc = "summarize"
  /\ results_summary' =
       [m \in DOMAIN results_summary \cup {llm_model} |->
          IF m = llm_model
            THEN summary_entry(baseline_results[1], optimized_results[1])
            ELSE results_summary[m]]
  /\ IF mi < Len(LLM_MODELS)
       THEN mi' = mi + 1 /\ pc' = "prepare"
       ELSE mi' = mi /\ pc' = "final"
  /\ UNCHANGED <<config_vars, data_dir, storage_vars, run, baseline_results,
                 optimized_results, evaluator_vars, harness_vars, calls, hit, saved, failed>>

\* main.py:99-117: the summary is printed and written.
Final ==
  /\ pc = "final"
  /\ summary_file' = FileOf([llm_models |-> results_summary])
  /\ saved' = saved \cup {<<0, "summary">>}
  /\ pc' = "done"
  /\ UNCHANGED <<config_vars, data_dir, prompts_files, results_dir, run, mi,
                 results_summary, baseline_results, optimized_results, evaluator_vars,
                 harness_vars, calls, hit, failed>>

\* ------------------------------------------------------- specifications
\* Before main() was ever started with the given configuration and test
\* file: no data directory, no prompts file, no report, no summary.
InitStorage(models) ==
  /\ LLM_MODELS = models
  /\ data_dir = FALSE
  /\ prompts_files = [n \in LlmNames(models) |-> NoFile]
  /\ results_dir = [n \in LlmNames(models) |-> [baseline |-> NoFile, optimized |-> NoFile]]
  /\ summary_file = NoFile
  /\ run = 0
  /\ mi = 1
  /\ results_summary = [m \in {} |-> NoReport]
  /\ baseline_results = NoReport
  /\ optimized_results = NoReport
  /\ test_data = <<>>
  /\ pos = 0
  /\ scores = <<>>
  /\ total_questions = 0
  /\ correct_answers = 0
  /\ results = <<>>
  /\ ret = <<>>
  /\ calls = [p \in (1..Len(models)) \X Modes |-> 0]
  /\ hit = {}
  /\ saved = {}
  /\ failed = <<>>
  /\ log = <<>>

InitWith(models, files) ==
  /\ InitStorage(models)
  /\ test_file \in files
  /\ pc = "idle"
  /\ arg = <<>>

Init == InitWith(DefaultModels, SmallTestFiles)

Next ==
  \/ StartRun
  \/ Prepare
  \/ BaselineCheck
  \/ BaselineQuestion
  \/ BaselineReturn
  \/ OptimizedCheck
  \/ OptimizedVariant
  \/ OptimizedBest
  \/ OptimizedReturn
  \/ Summarize
  \/ Final

\* The experiment of the default configuration, started MaxRuns times.
Spec == Init /\ [][Next]_vars

\* The experiment of one model on longer test files.
InitOne == InitWith(SingleModel, TestFiles)

SpecOne == InitOne /\ [][Next]_vars

\* ------------------------------------- functions called on their own
\* _evaluate_single on every response of at most MaxLen characters, and on
\* an invoker that fails.
InitEvaluateSingle ==
  /\ InitStorage(SingleModel)
  /\ test_file = <<>>
  /\ pc = "call_evaluate_single"
  /\ arg \in {Returned(text) : text \in StringsUpTo(Chars, MaxLen)} \cup {Failure}

CallEvaluateSingle ==
  /\ pc = "call_evaluate_single"
  /\ ret' = _evaluate_single(arg)
  /\ pc' = "returned"
  /\ UNCHANGED <<config_vars, data_dir, storage_vars, run, mi, results_summary,
                 baseline_results, optimized_results, evaluator_vars, arg,
                 calls, hit, saved, failed>>

SpecEvaluateSingle == InitEvaluateSingle /\ [][CallEvaluateSingle]_vars

\* generate_prompt_variants on every response of at most MaxGenLen
\* characters, and on a model call that fails, for 0..MaxCount variants.
InitGenerate ==
  /\ InitStorage(SingleModel)
  /\ test_file = <<>>
  /\ pc = "call_generate_prompt_variants"
  /\ arg \in [question : {Q1, <<>>},
              num_variants : 0..MaxCount,
              outcome : {Returned(text) : text \in StringsUpTo(GenChars, MaxGenLen)}
                          \cup {Failure}]

CallGenerate ==
  /\ pc = "call_generate_prompt_variants"
  /\ ret' = generate_prompt_variants(arg.question, arg.num_variants, arg.outcome)
  /\ pc' = "returned"
  /\ UNCHANGED <<config_vars, data_dir, storage_vars, run, mi, results_summary,
                 baseline_results, optimized_results, evaluator_vars, arg,
                 calls, hit, saved, failed>>

SpecGenerate == InitGenerate /\ [][CallGenerate]_vars

\* ------------------------------------------------------------------ claims
\* text = whitespace, then core, then whitespace, where core neither starts
\* nor ends with whitespace.
IsStripOf(core, text) ==
  /\ core = <<>> \/ (core[1] \notin Whitespace /\ core[Len(core)] \notin Whitespace)
  /\ \E i, j \in 0..Len(text) :
       /\ i + Len(core) + j = Len(text)
       /\ \A k \in 1..i : text[k] \in Whitespace
       /\ \A k \in 1..Len(core) : text[i + k] = core[k]
       /\ \A k \in 1..j : text[i + Len(core) + k] \in Whitespace

\* The label the claim gives for the stripped, upper-cased response r.
LabelOf(r) ==
  IF r \in {<<"A">>, <<"B">>, <<"C">>, <<"D">>} THEN r
  ELSE IF Len(r) > 0 /\ r[1] \in {"A", "B", "C", "D"} THEN <<r[1]>>
  ELSE <<"A">>

\* C1: whenever the invoker returns a response, _evaluate_single returns a
\* label in {A,B,C,D}: with r the response stripped and upper-cased, r
\* itself if r is one of A,B,C,D, else r's first character if that is one of
\* A,B,C,D, else "A" (also for the empty response); "b" gives B, "ba..."
\* gives B, "x.." gives A.
C1_LabelOfResponse ==
  (pc = "returned" /\ arg.ok) =>
    /\ ~ret.raised
    /\ ret.value \in {<<"A">>, <<"B">>, <<"C">>, <<"D">>}
    /\ \A core \in StringsUpTo(Chars, MaxLen) :
         IsStripOf(core, arg.text) =>
           ret.value = LabelOf([i \in 1..Len(core) |-> upper(core[i])])
    /\ (arg.text = <<"b">> => ret.value = <<"B">>)
    /\ (arg.text = <<"b", "a", "x">> => ret.value = <<"B">>)
    /\ (arg.text = <<"x", "a", "b">> => ret.value = <<"A">>)
    /\ (arg.text = <<>> => ret.value = <<"A">>)

\* C1 witness: a response with whitespace, in lower case and longer than
\* one letter was labelled by its first letter.
C1_Witness ==
  /\ pc = "returned"
  /\ arg = Returned(<<" ", "b", "x">>)
  /\ ret = Return(<<"B">>)

\* C6: when the invoker call fails, _evaluate_single raises and returns no
\* label, so a returned label (the default "A" too) always comes from a
\* response the invoker gave.
C6_FailureRaises ==
  pc = "returned" =>
    /\ (~arg.ok => ret = RaiseRuntimeError)
    /\ (~ret.raised => arg.ok)
    /\ (ret = Return(<<"A">>) =>
          arg.ok /\ LabelOf(str_upper(strip(arg.text))) = <<"A">>)

\* C6 witness: the invoker failed and the call raised.
C6_Witness ==
  /\ pc = "returned"
  /\ ~arg.ok
  /\ ret.raised

\* The number of sep characters in text.
CountOf(text, sep) == Cardinality({i \in 1..Len(text) : text[i] = sep})

\* C10: generate_prompt_variants(question, count) never raises and returns
\* exactly count strings: the question count times when the model call
\* fails; else the first count (stripped) pieces of the response, followed by
\* the question as often as pieces are missing.
C10_ExactlyCountVariants ==
  pc = "returned" =>
    LET count == arg.num_variants
        npieces == CountOf(arg.outcome.text, "|") + 1
    IN  /\ ~ret.raised
        /\ Len(ret.value) = count
        /\ ~arg.outcome.ok => \A i \in 1..count : ret.value[i] = arg.question
        /\ arg.outcome.ok =>
             /\ \A i \in 1..count :
                  i <= npieces => ret.value[i] = strip(split(arg.outcome.text, "|")[i])
             /\ \A i \in 1..count : i > npieces => ret.value[i] = arg.question

\* C10 witnesses: fewer pieces than asked for were padded with the question.
C10_Witness ==
  /\ pc = "returned"
  /\ arg = [question |-> Q1, num_variants |-> 3, outcome |-> Returned(<<"u", "|", " ", "v">>)]
  /\ ret = Return(<< <<"u">>, <<"v">>, Q1 >>)

\* The report file of the model at position i for the mode.
ReportFile(i, mode) == results_dir[llm_name(LLM_MODELS[i])][mode]

\* The values main puts into the summary for the mode, as the report has them.
SummaryValues(mode, rep) ==
  IF mode = "baseline"
    THEN <<rep.accuracy, rep.correct, rep.total>>
    ELSE <<rep.accuracy, rep.correct>>

\* The values a summary entry holds for the mode.
EntryValues(mode, entry) ==
  IF mode = "baseline"
    THEN <<entry.baseline_accuracy, entry.baseline_correct, entry.total_questions>>
    ELSE <<entry.optimized_accuracy, entry.optimized_correct>>

\* C2: when the report file of a (model, mode) pair exists as main reaches
\* the pair, no invoker call is made for the pair in that run, the file is
\* not written in that run, what main loaded is the file's report, and the
\* summary (in memory and, once written, on disk) holds the report's values.
C2_CachedReportIsUsed ==
  \A p \in hit :
    LET i == p[1]
        mode == p[2]
        file == ReportFile(i, mode)
    IN  /\ calls[p] = 0
        /\ p \notin saved
        /\ exists(file)
        /\ (i = mi /\ mode = "baseline" /\ pc \in {"optimized", "optimized_loop", "summarize"})
             => baseline_results = file
        /\ (i = mi /\ mode = "optimized" /\ pc = "summarize")
             => optimized_results = file
        /\ LLM_MODELS[i] \in DOMAIN results_summary
             => EntryValues(mode, results_summary[LLM_MODELS[i]]) = SummaryValues(mode, file[1])
        /\ pc = "done"
             => EntryValues(mode, summary_file[1].llm_models[LLM_MODELS[i]])
                  = SummaryValues(mode, file[1])

\* C2 witness: the second run, after a first run that was aborted in the
\* second model's optimized evaluation, loaded the three reports the first
\* run had left, evaluated only the missing one and wrote the summary.
C2_Witness ==
  /\ run = 2
  /\ pc = "done"
  /\ hit = {<<1, "baseline">>, <<1, "optimized">>, <<2, "baseline">>}
  /\ <<2, "optimized">> \in saved

\* The number of questions an evaluation of the mode goes through.
QuestionsOf(mode, n) ==
  IF mode = "baseline"
    THEN Len(_load_test_data(test_file))
    ELSE zip_len_of(_load_test_data(test_file), prompts_files[n][1])

\* C3: an invoker failure during an evaluation ends the run at that call
\* (the call that failed is the last one of the run), main's handler is
\* reached, and the report of that (model, mode) is not written; a report
\* file that exists holds a result with a label for every question.
C3_FailureAbortsRun ==
  /\ failed # <<>> =>
       /\ pc = "aborted"
       /\ calls[<<failed[1], failed[2]>>] = failed[3]
       /\ failed[2] = "baseline" => calls[<<failed[1], "optimized">>] = 0
       /\ <<failed[1], failed[2]>> \notin saved
       /\ ~exists(ReportFile(failed[1], failed[2]))
  /\ \A i \in DOMAIN LLM_MODELS : \A mode \in Modes :
       exists(ReportFile(i, mode)) =>
         LET rep == ReportFile(i, mode)[1]
         IN  /\ rep.total = QuestionsOf(mode, llm_name(LLM_MODELS[i]))
             /\ Len(rep.results) = rep.total
             /\ \A k \in 1..Len(rep.results) :
                  rep.results[k].predicted \in {<<"A">>, <<"B">>, <<"C">>, <<"D">>}

\* C3 witness: the fifth call of an optimized evaluation (the first variant
\* of the second question) failed, after the first question was evaluated.
C3_Witness ==
  /\ pc = "aborted"
  /\ failed = <<1, "optimized", NumVariants + 2>>
  /\ ~exists(ReportFile(1, "optimized"))

\* C4 (state part): after a fatal error no later model was processed in
\* the run (no invoker call, no file written), the summary was not written
\* in the run, and the reports of the earlier models are present.
C4_NothingAfterFailure ==
  failed # <<>> =>
    /\ pc = "aborted"
    /\ <<0, "summary">> \notin saved
    /\ LLM_MODELS[failed[1]] \notin DOMAIN results_summary
    /\ \A k \in DOMAIN LLM_MODELS :
         /\ k > failed[1] =>
              /\ \A mode \in Modes : calls[<<k, mode>>] = 0
              /\ \A kind \in Modes \cup {"prompts"} : <<k, kind>> \notin saved
         /\ k < failed[1] =>
              \A mode \in Modes : exists(ReportFile(k, mode))

\* C4: a fatal invoker error stops the experiment: no later model is
\* processed, no summary is written in that run, the earlier models'
\* reports are present, and the step that fails changes no file.
C4_FailureStopsExperiment ==
  /\ []C4_NothingAfterFailure
  /\ [][pc' = "aborted" => UNCHANGED storage_vars]_vars

\* C4 witness: the second model failed; the first model's reports exist.
C4_Witness ==
  /\ pc = "aborted"
  /\ failed # <<>>
  /\ failed[1] = 2
  /\ exists(ReportFile(1, "baseline"))
  /\ exists(ReportFile(1, "optimized"))
  /\ ~exists(summary_file)

\* C5 as claimed: after the abort neither report of the failing model exists.
C5_NoReportOfFailedModel ==
  failed # <<>> =>
    /\ ~exists(ReportFile(failed[1], "baseline"))
    /\ ~exists(ReportFile(failed[1], "optimized"))

\* C5 amended: after the abort the optimized report of the failing model
\* does not exist, and its baseline report exists exactly when the failure
\* occurred in the optimized evaluation (the report of the evaluation that
\* failed never exists).
C5_NoReportOfFailedEvaluation ==
  failed # <<>> =>
    /\ ~exists(ReportFile(failed[1], failed[2]))
    /\ ~exists(ReportFile(failed[1], "optimized"))
    /\ exists(ReportFile(failed[1], "baseline")) <=> failed[2] = "optimized"

\* C5 witness: the second model failed in its optimized evaluation and its
\* baseline report is there.
C5_Witness ==
  /\ pc = "aborted"
  /\ failed # <<>>
  /\ failed[1] = 2
  /\ failed[2] = "optimized"
  /\ exists(ReportFile(2, "baseline"))
  /\ ~exists(ReportFile(2, "optimized"))

\* The question results of optimized evaluations, each with the prompts row
\* it was paired with: those of the evaluation under way and those of the
\* optimized report files.
OptimizedResults ==
  (IF pc = "optimized_loop"
     THEN {<<results[k], prompts_rows[k]>> : k \in 1..Len(results)}
     ELSE {})
  \cup UNION { IF exists(results_dir[n].optimized)
                 THEN {<<results_dir[n].optimized[1].results[k], prompts_files[n][1][k]>> :
                         k \in 1..Len(results_dir[n].optimized[1].results)}
                 ELSE {} : n \in DOMAIN results_dir }

\* C7: in every question result of run_optimized_evaluation best_idx is the
\* smallest (0-based) index whose score is the maximum of scores, and
\* best_prompt is the variant at that index.
C7_FirstMaximum ==
  \A rr \in OptimizedResults :
    LET r == rr[1]
        row == rr[2]
        at == r.best_idx + 1
    IN  /\ at \in 1..Len(r.scores)
        /\ \A j \in 1..Len(r.scores) : r.scores[j] <= r.scores[at]
        /\ \A j \in 1..(at - 1) : r.scores[j] < r.scores[at]
        /\ r.best_prompt = row[at]

\* C7 witness: the scores 0,1,1 were recorded with best_idx 1.
C7_Witness ==
  \E rr \in OptimizedResults :
    /\ rr[1].scores = <<0, 1, 1>>
    /\ rr[1].best_idx = 1
    /\ rr[1].best_prompt = <<"v">>

\* The logged calls made for the question at position k.
RECURSIVE CallsAt(_, _)
CallsAt(calllog, k) ==
  IF calllog = <<>> THEN <<>>
  ELSE IF Head(calllog).pos = k THEN <<Head(calllog)>> \o CallsAt(Tail(calllog), k)
  ELSE CallsAt(Tail(calllog), k)

\* C8: every score list recorded by run_optimized_evaluation has exactly
\* NumVariants entries, each 0.0 or 1.0; the i-th entry is the score of the
\* row's i-th variant: 1.0 exactly when the label predicted for that
\* variant's prompt is the ground-truth label.
C8_ScoreLists ==
  /\ \A rr \in OptimizedResults :
       /\ Len(rr[1].scores) = NumVariants
       /\ \A i \in 1..Len(rr[1].scores) : rr[1].scores[i] \in {0, 1}
  /\ pc = "optimized_loop" =>
       \A k \in 1..Len(results) :
         LET r == results[k]
             made == CallsAt(log, k)
         IN  /\ Len(made) >= NumVariants
             /\ \A i \in 1..NumVariants :
                  /\ made[i].prompt.question = prompts_rows[k][i]
                  /\ r.scores[i] = 1 <=> made[i].label = r.correct

\* C8 witness: a question's variants were scored 1.0, 0.0, 1.0.
C8_Witness ==
  /\ pc = "optimized_loop"
  /\ Len(results) = 1
  /\ results[1].scores = <<1, 0, 1>>
  /\ Len(CallsAt(log, 1)) = NumVariants + 1

\* The reports the evaluations returned: those main holds and those in the
\* report files.
Reports ==
  {baseline_results[k] : k \in DOMAIN baseline_results}
  \cup {optimized_results[k] : k \in DOMAIN optimized_results}
  \cup UNION { {results_dir[n][mode][k] : k \in DOMAIN results_dir[n][mode]} :
               n \in DOMAIN results_dir, mode \in Modes }

\* C9: in every report total is the number of results, correct the number
\* of results with is_correct true (0 <= correct <= total), and accuracy is
\* correct / total * 100 when total > 0 and 0 when total = 0.
C9_Accuracy ==
  \A rep \in Reports :
    /\ rep.total = Len(rep.results)
    /\ rep.correct = Cardinality({k \in 1..Len(rep.results) : rep.results[k].is_correct})
    /\ 0 <= rep.correct /\ rep.correct <= rep.total
    /\ rep.accuracy.den > 0
    /\ rep.total > 0 => rep.accuracy.num * rep.total = rep.correct * 100 * rep.accuracy.den
    /\ rep.total = 0 => rep.accuracy.num = 0

\* C9 witness: an evaluation of a test file without questions returned a
\* report with total 0 and accuracy 0.
C9_Witness ==
  \E rep \in Reports : rep.total = 0 /\ rep.accuracy = [num |-> 0, den |-> 1]

\* C9, a second case: two questions, one of them answered correctly: 50.
C9_Half ==
  \E rep \in Reports :
    rep.total = 2 /\ rep.correct = 1 /\ rep.accuracy = [num |-> 50, den |-> 1]

\* C11: a report file is immutable once written: over all runs, completed
\* or aborted, no step writes a report file that exists (each is written at
\* most once) and no step changes or removes its content.
C11_ReportWrittenOnce ==
  [][\A i \in DOMAIN LLM_MODELS : \A mode \in Modes :
       exists(ReportFile(i, mode)) =>
         /\ results_dir'[llm_name(LLM_MODELS[i])][mode] = ReportFile(i, mode)
         /\ <<i, mode>> \in saved' => <<i, mode>> \in saved]_vars

\* C11 witness: a second run ended with all four reports on disk and wrote
\* none of them (only the summary).
C11_Witness ==
  /\ run = 2
  /\ pc = "done"
  /\ saved = {<<0, "summary">>}
  /\ \A i \in DOMAIN LLM_MODELS : \A mode \in Modes : exists(ReportFile(i, mode))

\* C12: for each question of run_optimized_evaluation with N variants,
\* N + 1 invoker calls are made: one per variant in index order, then one
\* with the prompt of the selected best variant; predicted and is_correct of
\* the question result are those of that last call.
C12_FinalCallDecides ==
  pc = "optimized_loop" =>
    /\ calls[<<mi, "optimized">>] = Len(log)
    /\ Len(log) = (NumVariants + 1) * Len(results) + Len(scores)
    /\ \A k \in 1..Len(results) :
         LET r == results[k]
             row == prompts_rows[k]
             made == CallsAt(log, k)
             N == Len(row)
         IN  /\ Len(made) = N + 1
             /\ \A i \in 1..N :
                  made[i].prompt = _format_mmlu_prompt(row[i], test_data[k].choices)
             /\ made[N + 1].prompt = _format_mmlu_prompt(r.best_prompt, test_data[k].choices)
             /\ r.predicted = made[N + 1].label
             /\ r.is_correct <=> made[N + 1].label = r.correct
             \* the calls of a question are made one after the other
             /\ \A i \in 1..Len(log) :
                  log[i].pos = k <=> (i > (k - 1) * (N + 1) /\ i <= k * (N + 1))

\* C12 witness: the best variant was scored 1.0 by its scoring call, the
\* final call answered otherwise and the result says is_correct false.
C12_Witness ==
  /\ pc = "optimized_loop"
  /\ Len(results) = 1
  /\ results[1].scores = <<0, 1, 0>>
  /\ results[1].best_idx = 1
  /\ CallsAt(log, 1)[2].label = results[1].correct
  /\ CallsAt(log, 1)[NumVariants + 1].label # results[1].correct
  /\ ~results[1].is_correct

\* The rows generate_prompt_variants can return for the question.
RowsGeneratedFrom(question) ==
  {generate_prompt_variants(question, NumVariants, outcome).value : outcome \in GenOutcomes}

\* C13: with the prompts file process_test_file made from the test file,
\* every question run_optimized_evaluation evaluates is paired with the
\* variants row generated from that question (the k-th result with the row
\* of the k-th question process_test_file kept), whatever the numbers of
\* fields of the test file's rows.
C13_PairedWithOwnVariants ==
  pc = "optimized_loop" =>
    \A k \in 1..Len(results) :
      /\ results[k].original_question = GeneratedRows(test_file)[k][1]
      /\ prompts_rows[k] \in RowsGeneratedFrom(results[k].original_question)

\* The pairing is right on the test files whose rows all have fewer than 5
\* or at least 6 fields.
C13_PairedWithoutFiveFieldRows ==
  (pc = "optimized_loop" /\ \A j \in DOMAIN test_file : Len(test_file[j]) # 5) =>
    \A k \in 1..Len(results) :
      /\ results[k].original_question = GeneratedRows(test_file)[k][1]
      /\ prompts_rows[k] \in RowsGeneratedFrom(results[k].original_question)

\* C14: for every model with both reports, the optimized report's total
\* is the baseline report's total, so the total_questions of the model's
\* summary entry (the baseline total) is the number of questions the
\* optimized correct count is out of.
C14_SameTotal ==
  /\ \A i \in DOMAIN LLM_MODELS :
       (exists(ReportFile(i, "baseline")) /\ exists(ReportFile(i, "optimized"))) =>
         /\ ReportFile(i, "optimized")[1].total = ReportFile(i, "baseline")[1].total
         /\ Len(ReportFile(i, "optimized")[1].results)
              = Len(ReportFile(i, "baseline")[1].results)
         /\ \A k \in 1..Len(ReportFile(i, "baseline")[1].results) :
              ReportFile(i, "optimized")[1].results[k].original_question
                = ReportFile(i, "baseline")[1].results[k].question
  /\ \A m \in DOMAIN results_summary :
       \A i \in DOMAIN LLM_MODELS :
         LLM_MODELS[i] = m =>
           /\ results_summary[m].total_questions = ReportFile(i, "optimized")[1].total
           /\ results_summary[m].optimized_correct <= results_summary[m].total_questions

\* C14 witness: an experiment ended on a test file whose prompts file has
\* more rows than the test file has questions; both totals are 1.
C14_Witness ==
  /\ pc = "done"
  /\ Len(prompts_files[llm_name(LLM_MODELS[1])][1]) = 2
  /\ ReportFile(1, "baseline")[1].total = 1
  /\ ReportFile(1, "optimized")[1].total = 1
  /\ summary_file[1].llm_models[LLM_MODELS[1]].total_questions = 1

\* The invoker answered the calls of a log as a function of the prompt:
\* equal prompts got equal responses, hence equal labels.
Deterministic(calllog) ==
  \A i, j \in 1..Len(calllog) :
    calllog[i].prompt = calllog[j].prompt => calllog[i].label = calllog[j].label

\* C15: when the invoker answered the evaluation's calls deterministically,
\* every question result has is_correct exactly when scores[best_idx] is 1,
\* which is exactly when some variant scored 1.
C15_DeterministicFinalCall ==
  (pc = "optimized_loop" /\ Deterministic(log)) =>
    \A k \in 1..Len(results) :
      LET r == results[k]
      IN /\ r.is_correct <=> (r.scores[r.best_idx + 1] = 1)
         /\ (r.scores[r.best_idx + 1] = 1) <=> (\E i \in 1..Len(r.scores) : r.scores[i] = 1)

\* C15 witness: a deterministic invoker, a question whose second variant
\* alone scored 1, and a final call that is correct.
C15_Witness ==
  /\ pc = "optimized_loop"
  /\ Deterministic(log)
  /\ Len(results) = 1
  /\ results[1].scores = <<0, 1, 0>>
  /\ results[1].best_idx = 1
  /\ results[1].is_correct

\* C15, second part: with an invoker that answers one prompt in two ways,
\* a result whose best variant scored 1 has is_correct false (a state TLC
\* reaches, so its negation is not an invariant).
C15_NonDeterministicDiffers ==
  /\ pc = "optimized_loop"
  /\ ~Deterministic(log)
  /\ \E k \in 1..Len(results) :
       results[k].scores[results[k].best_idx + 1] = 1 /\ ~results[k].is_correct

====
